---- MODULE Spec2Model ----
(***************************************************************************)
(* Model of src/src/Lightning.cpp: post-processing of the lightning        *)
(* sensor's accumulated strike counter into a last-event snapshot and an   *)
(* hourly history of per-interval event counts.                            *)
(*                                                                         *)
(* The record nvLightning is the program's only state.  With the           *)
(* Preferences backend (LIGHTNING_USE_PREFS) update() additionally loads   *)
(* the record from, and on its last line saves it to, a key-value store.   *)
(***************************************************************************)
EXTENDS Integers, FiniteSets, Sequences, TLC

VARIABLES nvLightning, preferences, usePrefs, tzOffsetMin, calls, last, scenario,
          probe

vars == <<nvLightning, preferences, usePrefs, tzOffsetMin, calls, last, scenario,
          probe>>

(***************************************************************************)
(* Constants of Lightning.h and bounds of the model                        *)
(***************************************************************************)
LIGHTNING_HIST_SIZE == 6
LIGHTNING_UPD_RATE == 10
HIST_INIT_DEFAULT == -1

\* Seconds of one history bucket (LIGHTNING_UPD_RATE * 60).
BucketPeriod == LIGHTNING_UPD_RATE * 60
\* Seconds of the whole history (LIGHTNING_HIST_SIZE * LIGHTNING_UPD_RATE * 60).
HistFrame == LIGHTNING_HIST_SIZE * LIGHTNING_UPD_RATE * 60

\* Timestamps offered to update(): the bucket boundaries from the epoch up to
\* MaxPeriods bucket periods after it, and the points half a period after the
\* boundaries -1 .. MaxHalfPeriods (the first of them lies before the epoch).
MaxPeriods == 8
MaxHalfPeriods == 1
\* Small counter values offered to update().
MaxCount == 2
\* Largest distance offered to update().
MaxDistance == 1
\* Number of update() and reset() calls in a run.
MaxCalls == 2

Timestamps ==
    {k * BucketPeriod : k \in 0 .. MaxPeriods}
        \cup {k * BucketPeriod + (BucketPeriod \div 2) : k \in -1 .. MaxHalfPeriods}
\* int counter values: the small ones, and 65535, which is beyond the int16_t
\* range of prevCount.
Counts == (0 .. MaxCount) \cup {65535}
Distances == 1 .. MaxDistance
\* Local-time offsets (minutes) of the time zone localtime_r() applies.
TzOffsets == {0, 45}

Buckets == 0 .. (LIGHTNING_HIST_SIZE - 1)

(***************************************************************************)
(* Integer conversions                                                     *)
(***************************************************************************)
\* Conversion of an int to uint16_t.
ToUint16(x) == x % 65536
\* Conversion of an int to int16_t.
ToInt16(x) == LET u == x % 65536 IN IF u >= 32768 THEN u - 65536 ELSE u

(***************************************************************************)
(* nvLightning                                                             *)
(***************************************************************************)
\* The initializer of the global record.
nvLightningInit ==
    [lastUpdate |-> 0,
     prevCount  |-> -1,
     events     |-> 0,
     distance   |-> 0,
     timestamp  |-> 0,
     hist       |-> [i \in Buckets |-> 0]]

\* Lightning::reset()
reset(nv) ==
    [nv EXCEPT !.lastUpdate = 0,
               !.prevCount = -1,
               !.events = -1,
               !.distance = 0,
               !.timestamp = 0]

\* Lightning::hist_init(uint16_t count)
hist_init(nv, count) ==
    [nv EXCEPT !.hist = [i \in Buckets |-> ToUint16(count)]]

\* The value hist_init() leaves in every bucket when called without argument.
HistFill == ToUint16(HIST_INIT_DEFAULT)

(***************************************************************************)
(* Preferences backend                                                     *)
(***************************************************************************)
PrefKeys == {"lastUpdate", "prevCount", "events", "distance", "timestamp", "hist"}
\* A key maps to <<>> while it is not stored and to <<value>> once it is.
\* The namespace "BWS-LGT" before anything was stored in it.
preferencesInit == [k \in PrefKeys |-> <<>>]

\* preferences.getXxx(key, default)
PrefGet(prefs, key, default) ==
    IF Len(prefs[key]) = 0 THEN default ELSE prefs[key][1]

\* Lightning::prefs_load()
prefs_load(nv, prefs) ==
    [lastUpdate |-> PrefGet(prefs, "lastUpdate", 0),
     prevCount  |-> ToInt16(PrefGet(prefs, "prevCount", ToUint16(-1))),
     events     |-> ToInt16(PrefGet(prefs, "events", ToUint16(-1))),
     distance   |-> PrefGet(prefs, "distance", 0),
     timestamp  |-> PrefGet(prefs, "timestamp", 0),
     hist       |-> PrefGet(prefs, "hist", nv.hist)]

\* Lightning::prefs_save()
prefs_save(nv) ==
    [k \in PrefKeys |->
        CASE k = "lastUpdate" -> <<nv.lastUpdate>>
          [] k = "prevCount"  -> <<ToUint16(nv.prevCount)>>
          [] k = "events"     -> <<ToUint16(nv.events)>>
          [] k = "distance"   -> <<nv.distance>>
          [] k = "timestamp"  -> <<nv.timestamp>>
          [] k = "hist"       -> <<nv.hist>>]

(***************************************************************************)
(* History addressing                                                      *)
(***************************************************************************)
\* localtime_r(&ts, &timeinfo); timeinfo.tm_min
tm_min(ts, tz) == ((ts \div 60) + tz) % 60

\* The index rounded up to the next bucket instead of down.
bucketIndexFor_RoundUp(ts, tz, updRate) ==
    (tm_min(ts, tz) + updRate - 1) \div updRate

\* int idx = min / LIGHTNING_UPD_RATE, for a build with the given update rate
bucketIndexFor(ts, tz, updRate) == tm_min(ts, tz) \div updRate

\* int idx = min / LIGHTNING_UPD_RATE
bucketIndex(ts, tz) == bucketIndexFor(ts, tz, LIGHTNING_UPD_RATE)

\* The loop started at lastUpdate itself instead of one period after it.
WalkTs_FromLastUpdate(lastUpdate, timestamp) ==
    IF timestamp <= lastUpdate THEN {}
    ELSE {lastUpdate + k * BucketPeriod :
            k \in 0 .. ((timestamp - lastUpdate - 1) \div BucketPeriod)}

\* The values ts takes in the loop
\* for (ts = lastUpdate + UPD_RATE*60; ts < timestamp; ts += UPD_RATE*60).
WalkTs(lastUpdate, timestamp) ==
    IF timestamp <= lastUpdate THEN {}
    ELSE {lastUpdate + k * BucketPeriod :
            k \in 1 .. ((timestamp - lastUpdate - 1) \div BucketPeriod)}

\* The loop marking the history entries of the missed intervals invalid.
InvalidateGap(hist, lastUpdate, timestamp, tz) ==
    LET hit == {bucketIndex(ts, tz) : ts \in WalkTs(lastUpdate, timestamp)}
    IN  [i \in Buckets |-> IF i \in hit THEN -1 ELSE hist[i]]

(***************************************************************************)
(* Lightning::update()                                                     *)
(***************************************************************************)
\* if (count > prevCount) { ... }: the detected event is saved.
SaveEvent(nv, timestamp, count, distance) ==
    IF count > nv.prevCount
    THEN [nv EXCEPT !.events = ToInt16(count - nv.prevCount),
                    !.prevCount = ToInt16(count),
                    !.distance = distance,
                    !.timestamp = timestamp]
    ELSE nv

\* The history part of update(), from the computation of t_delta on; the
\* result has the record, the path taken and the number of loop iterations.
UpdateHistory(nv, timestamp, count, tz) ==
    LET t_delta == timestamp - nv.lastUpdate
    IN  IF t_delta < 0
        THEN [nv |-> nv, path |-> "negative", walk |-> 0]
        ELSE LET nv4 == IF t_delta >= HistFrame
                        THEN hist_init(nv, HIST_INIT_DEFAULT) ELSE nv
                 idx == bucketIndex(timestamp, tz)
                 h5  == [nv4.hist EXCEPT ![idx] = count - nv4.prevCount]
                 h6  == InvalidateGap(h5, nv4.lastUpdate, timestamp, tz)
             IN  [nv |-> [nv4 EXCEPT !.hist = h6],
                  path |-> IF t_delta >= HistFrame THEN "expired" ELSE "history",
                  walk |-> Cardinality(WalkTs(nv4.lastUpdate, timestamp))]

\* The test without its counter-regression half.
IsBaseline_ColdOnly(nv, count) ==
    nv.prevCount = -1

\* if ((prevCount == -1) || (count < prevCount)): no previous count, counter
\* reset or counter overflow.
IsBaseline(nv, count) ==
    nv.prevCount = -1 \/ count < nv.prevCount

\* nvLightning.prevCount = count; return;  (no previous count, counter reset
\* or counter overflow)
Rebaseline(nv, count) ==
    [nv EXCEPT !.prevCount = ToInt16(count)]

\* The whole of update(): the record and the store it leaves, and the path.
update(nvIn, prefs, withPrefs, tz, timestamp, count, distance) ==
    LET nv1 == IF withPrefs THEN prefs_load(nvIn, prefs) ELSE nvIn
        nv2 == IF nv1.prevCount = -1 THEN hist_init(nv1, HIST_INIT_DEFAULT) ELSE nv1
    IN  IF IsBaseline(nv2, count)
        THEN [nv |-> Rebaseline(nv2, count),
              prefs |-> prefs,
              entry |-> nv1,
              path |-> IF nv2.prevCount = -1 THEN "cold" ELSE "regression",
              walk |-> 0]
        ELSE LET nv3 == SaveEvent(nv2, timestamp, count, distance)
                 r   == UpdateHistory(nv3, timestamp, count, tz)
             IN  IF r.path = "negative"
                 THEN [nv |-> r.nv, prefs |-> prefs, entry |-> nv1,
                       path |-> r.path, walk |-> 0]
                 ELSE [nv |-> r.nv,
                       prefs |-> IF withPrefs THEN prefs_save(r.nv) ELSE prefs,
                       entry |-> nv1,
                       path |-> r.path, walk |-> r.walk]

(***************************************************************************)
(* Queries                                                                 *)
(***************************************************************************)
\* Lightning::lastEvent(): the return value and the three out-parameters,
\* which are left as the caller passed them when nothing is returned.
Unset == -2
NoResult == [res |-> FALSE, timestamp |-> Unset, events |-> Unset, distance |-> Unset]
lastEvent(nv) ==
    IF nv.events = -1
    THEN NoResult
    ELSE [res |-> TRUE, timestamp |-> nv.timestamp,
          events |-> nv.events, distance |-> nv.distance]

RECURSIVE SumValid_All(_, _)
\* The loop without its validity test: invalid entries are added too.
SumValid_All(hist, i) ==
    IF i >= LIGHTNING_HIST_SIZE THEN 0
    ELSE hist[i] + SumValid_All(hist, i + 1)

RECURSIVE SumValid(_, _)
\* The loop of pastHour() from bucket i on: the sum of the valid entries.
SumValid(hist, i) ==
    IF i >= LIGHTNING_HIST_SIZE THEN 0
    ELSE (IF hist[i] # -1 THEN hist[i] ELSE 0) + SumValid(hist, i + 1)

\* Lightning::pastHour(): the return value and the out-parameter.
pastHour(nv) ==
    [res |-> \E i \in Buckets : nv.hist[i] # -1,
     events |-> SumValid(nv.hist, 0)]

(***************************************************************************)
(* The calls made on the Lightning object                                  *)
(***************************************************************************)
\* last records the latest call: its arguments, the record before it (pre),
\* the record update() worked on after its load (entry), the path it took
\* and, for a query, what it returned; for an update(), also the number of
\* iterations of its gap loop (walk) and whether an earlier update() had
\* returned with no reset() since (afterUpdate).
NoArgs == [timestamp |-> 0, count |-> 0, distance |-> 0]
NoCall ==
    [op |-> "none", args |-> NoArgs, pre |-> nvLightningInit,
     entry |-> nvLightningInit, path |-> "none", walk |-> 0,
     afterUpdate |-> FALSE,
     lastEvent |-> NoResult, pastHour |-> [res |-> FALSE, events |-> 0]]

\* scenario follows the three-report sequence from first boot: stage 1 after
\* update(t0, c), stage 2 after update(t0 + 600, c + d) with d > 0, stage 3
\* after update(t0 + 4200, c + d + e) with e > 0; stage 4 once the calls
\* have left the sequence.  struck tells whether some update() since first
\* boot saved an event, wasReset whether reset() was called, baselined
\* whether an update() has returned since first boot or the latest reset().
ScenarioInit ==
    [stage |-> 0, t0 |-> 0, c |-> 0, d |-> 0, x |-> 0, e |-> 0,
     struck |-> FALSE, wasReset |-> FALSE, baselined |-> FALSE]
ScenarioStage(sc, timestamp, count, distance) ==
    CASE sc.stage = 0 ->
           [sc EXCEPT !.stage = 1, !.t0 = timestamp, !.c = count]
      [] sc.stage = 1 /\ timestamp = sc.t0 + 600 /\ count > sc.c ->
           [sc EXCEPT !.stage = 2, !.d = count - sc.c, !.x = distance]
      [] sc.stage = 2 /\ timestamp = sc.t0 + 600 + 3600 /\ count > sc.c + sc.d ->
           [sc EXCEPT !.stage = 3, !.e = count - sc.c - sc.d]
      [] OTHER ->
           [sc EXCEPT !.stage = 4, !.t0 = 0, !.c = 0, !.d = 0, !.x = 0, !.e = 0]
ScenarioStep(sc, timestamp, count, distance, saved) ==
    [ScenarioStage(sc, timestamp, count, distance) EXCEPT
        !.struck = sc.struck \/ saved, !.baselined = TRUE]

\* probe holds one evaluation of the bucket index for a pair of constants
\* (histSize, updRate) and a timestamp; the program itself is built with
\* LIGHTNING_HIST_SIZE and LIGHTNING_UPD_RATE and probes nothing.
NoProbe == [histSize |-> 0, updRate |-> 0, timestamp |-> 0, done |-> FALSE, idx |-> 0]

Init ==
    /\ nvLightning = nvLightningInit
    /\ preferences = preferencesInit
    /\ usePrefs \in BOOLEAN
    /\ tzOffsetMin \in TzOffsets
    /\ calls = 0
    /\ last = NoCall
    /\ scenario = ScenarioInit
    /\ probe = NoProbe

Update ==
    /\ calls < MaxCalls
    /\ calls' = calls + 1
    /\ \E timestamp \in Timestamps, count \in Counts, distance \in Distances :
        LET r == update(nvLightning, preferences, usePrefs, tzOffsetMin,
                        timestamp, count, distance)
            saved == r.path \in {"negative", "history", "expired"}
                        /\ count > r.entry.prevCount
        IN  /\ nvLightning' = r.nv
            /\ preferences' = r.prefs
            /\ last' = [NoCall EXCEPT
                          !.op = "update",
                          !.args = [timestamp |-> timestamp, count |-> count,
                                    distance |-> distance],
                          !.pre = nvLightning,
                          !.entry = r.entry,
                          !.path = r.path,
                          !.walk = r.walk,
                          !.afterUpdate = scenario.baselined]
            /\ scenario' = ScenarioStep(scenario, timestamp, count, distance, saved)
            /\ UNCHANGED <<usePrefs, tzOffsetMin, probe>>

Reset ==
    /\ calls < MaxCalls
    /\ calls' = calls + 1
    /\ nvLightning' = reset(nvLightning)
    /\ last' = [NoCall EXCEPT !.op = "reset", !.pre = nvLightning,
                                !.entry = nvLightning]
    /\ scenario' = [ScenarioInit EXCEPT !.stage = 4, !.struck = scenario.struck,
                                         !.wasReset = TRUE]
    /\ UNCHANGED <<preferences, usePrefs, tzOffsetMin, probe>>

LastEvent ==
    /\ last' = [NoCall EXCEPT !.op = "lastEvent", !.pre = nvLightning,
                                !.entry = nvLightning,
                                !.lastEvent = lastEvent(nvLightning)]
    /\ UNCHANGED <<nvLightning, preferences, usePrefs, tzOffsetMin, calls, scenario,
                   probe>>

PastHour ==
    /\ last' = [NoCall EXCEPT !.op = "pastHour", !.pre = nvLightning,
                                !.entry = nvLightning,
                                !.pastHour = pastHour(nvLightning)]
    /\ UNCHANGED <<nvLightning, preferences, usePrefs, tzOffsetMin, calls, scenario,
                   probe>>

Next == Update \/ Reset \/ LastEvent \/ PastHour

Spec == Init /\ [][Next]_vars

\* The bucket index as a function of the constants and the timestamp: a
\* build with any pair (histSize, updRate) such that histSize * updRate is
\* at most the minutes of an hour computes the index of any minute.
MinutesPerHour == 60
ConstantPairs ==
    {p \in (1 .. MinutesPerHour) \X (1 .. MinutesPerHour) :
        p[1] * p[2] <= MinutesPerHour}
ProbeTimestamps == {60 * m : m \in 0 .. (MinutesPerHour - 1)}
InitIndex ==
    /\ nvLightning = nvLightningInit
    /\ preferences = preferencesInit
    /\ usePrefs = FALSE
    /\ tzOffsetMin \in TzOffsets
    /\ calls = 0
    /\ last = NoCall
    /\ scenario = ScenarioInit
    /\ probe \in {[histSize |-> p[1], updRate |-> p[2], timestamp |-> t,
                    done |-> FALSE, idx |-> 0] :
                      p \in ConstantPairs, t \in ProbeTimestamps}

ProbeIndex ==
    /\ ~probe.done
    /\ probe' = [probe EXCEPT
                    !.done = TRUE,
                    !.idx = bucketIndexFor(probe.timestamp, tzOffsetMin, probe.updRate)]
    /\ UNCHANGED <<nvLightning, preferences, usePrefs, tzOffsetMin, calls, last,
                   scenario>>

SpecIndex == InitIndex /\ [][ProbeIndex]_vars

\* pastHour() as a function of the history: the history holds any values
\* of -1 .. MaxBucketValue and pastHour() is called on it.
MaxBucketValue == 2
InitPastHour ==
    /\ nvLightning \in {[nvLightningInit EXCEPT !.hist = h] :
                            h \in [Buckets -> -1 .. MaxBucketValue]}
    /\ preferences = preferencesInit
    /\ usePrefs = FALSE
    /\ tzOffsetMin = 0
    /\ calls = 0
    /\ last = NoCall
    /\ scenario = ScenarioInit
    /\ probe = NoProbe

SpecPastHour == InitPastHour /\ [][PastHour]_vars

(***************************************************************************)
(* Vocabulary of the properties                                            *)
(***************************************************************************)
IsUpdate == last.op = "update"
\* The latest call was an update() that went through the history steps.
Completed == IsUpdate /\ last.path \in {"history", "expired"}
\* rawCount minus the value prevCount had when the call started.
Delta == last.args.count - last.pre.prevCount
\* The bucket of the call's timestamp.
CurrentBucket == bucketIndex(last.args.timestamp, tzOffsetMin)
\* Elapsed time of the call, from the lastUpdate it started with.
Elapsed == last.args.timestamp - last.pre.lastUpdate
\* The durable record holds the field values of the record in memory.
DurableMatches ==
    /\ \A k \in PrefKeys : Len(preferences[k]) = 1
    /\ prefs_load(nvLightning, preferences) = nvLightning

(***************************************************************************)
(* Properties                                                              *)
(***************************************************************************)

\* C1: after an update() that is neither a cold start nor a counter
\* regression and has 0 <= timestamp - lastUpdate < HIST_SIZE*UPD_RATE*60, the
\* bucket of the call's timestamp holds rawCount minus the prevCount the call
\* started with.
C1_CurrentBucketHoldsDelta ==
    (IsUpdate /\ last.path = "history")
        => nvLightning.hist[CurrentBucket] = Delta

\* C2: after an update() that completes the history steps lastUpdate is the
\* call's timestamp, and on every abort path lastUpdate is unchanged.
C2_LastUpdateCommitted ==
    IsUpdate =>
        IF Completed
        THEN nvLightning.lastUpdate = last.args.timestamp
        ELSE nvLightning.lastUpdate = last.pre.lastUpdate

\* C3: an update() made with prevCount = P # -1 and rawCount = P + d, d > 0,
\* leaves events = d, distance and timestamp equal to the call's inputs and
\* prevCount = rawCount; made with rawCount = P it leaves events, distance
\* and timestamp as they were.
C3_SnapshotRule ==
    (IsUpdate /\ last.pre.prevCount # -1) =>
        /\ last.args.count > last.pre.prevCount =>
              /\ nvLightning.events = Delta
              /\ nvLightning.distance = last.args.distance
              /\ nvLightning.timestamp = last.args.timestamp
              /\ nvLightning.prevCount = last.args.count
        /\ last.args.count = last.pre.prevCount =>
              /\ nvLightning.events = last.pre.events
              /\ nvLightning.distance = last.pre.distance
              /\ nvLightning.timestamp = last.pre.timestamp

\* C4: one update() from the all-sentinel state (prevCount = -1, events = -1)
\* yields prevCount = rawCount, leaves events = -1 and distance, timestamp
\* and lastUpdate unchanged, and leaves every bucket at the reset fill value.
C4_ColdStart ==
    (IsUpdate /\ last.pre.prevCount = -1 /\ last.pre.events = -1) =>
        /\ nvLightning.prevCount = last.args.count
        /\ nvLightning.events = -1
        /\ nvLightning.distance = last.pre.distance
        /\ nvLightning.timestamp = last.pre.timestamp
        /\ nvLightning.lastUpdate = last.pre.lastUpdate
        /\ \A i \in Buckets : nvLightning.hist[i] = HistFill

\* C5: an update() made with prevCount = P # -1 and rawCount = P - k, k > 0,
\* P - k >= 0, sets prevCount to P - k and leaves events, distance,
\* timestamp, lastUpdate and every history bucket unchanged.
C5_Regression ==
    (IsUpdate /\ last.pre.prevCount # -1
              /\ last.args.count < last.pre.prevCount /\ last.args.count >= 0) =>
        /\ nvLightning.prevCount = last.args.count
        /\ nvLightning.events = last.pre.events
        /\ nvLightning.distance = last.pre.distance
        /\ nvLightning.timestamp = last.pre.timestamp
        /\ nvLightning.lastUpdate = last.pre.lastUpdate
        /\ nvLightning.hist = last.pre.hist

\* A regression happened: the counter went from a positive baseline, with
\* an event snapshot and a history in place, to a smaller value.
C5_Witness ==
    /\ IsUpdate /\ last.path = "regression"
    /\ last.pre.prevCount > 0
    /\ last.args.count < last.pre.prevCount
    /\ nvLightning.prevCount = last.args.count

\* Whole bucket periods between the call's lastUpdate and its timestamp, when
\* the elapsed time is a whole number of them (0 otherwise).
WholePeriods ==
    IF Elapsed > 0 /\ Elapsed % BucketPeriod = 0 THEN Elapsed \div BucketPeriod ELSE 0
\* The buckets other than the current one that the call turned into -1.
NewlyInvalid ==
    {i \in Buckets \ {CurrentBucket} :
        nvLightning.hist[i] = -1 /\ last.pre.hist[i] # -1}
\* The buckets of the boundaries lastUpdate + k * period, k = 1 .. n - 1.
BoundaryBuckets(n) ==
    {bucketIndex(last.pre.lastUpdate + k * BucketPeriod, tzOffsetMin) : k \in 1 .. (n - 1)}

\* C6 as stated: an update() through the history steps, exactly n bucket
\* periods after lastUpdate (1 <= n < HIST_SIZE), newly invalidates exactly n
\* buckets other than the current one and keeps every other bucket but the
\* current one.
C6_GapInvalidatesN ==
    (IsUpdate /\ last.path = "history" /\ WholePeriods >= 1) =>
        /\ Cardinality(NewlyInvalid) = WholePeriods
        /\ \A i \in Buckets \ (NewlyInvalid \cup {CurrentBucket}) :
              nvLightning.hist[i] = last.pre.hist[i]

\* C6 as amended: an update() through the history steps, exactly n bucket
\* periods after lastUpdate (1 <= n < HIST_SIZE), leaves -1 in exactly n - 1
\* buckets other than the current one, those of lastUpdate + k * period for
\* k = 1 .. n - 1, and keeps every other bucket but the current one.
C6_GapInvalidatesBoundaries ==
    (IsUpdate /\ last.path = "history" /\ WholePeriods >= 1) =>
        LET inval == BoundaryBuckets(WholePeriods)
        IN  /\ Cardinality(inval) = WholePeriods - 1
            /\ CurrentBucket \notin inval
            /\ \A i \in inval : nvLightning.hist[i] = -1
            /\ \A i \in Buckets \ (inval \cup {CurrentBucket}) :
                  nvLightning.hist[i] = last.pre.hist[i]

\* An update three whole periods after lastUpdate went through the history
\* steps and left two invalid buckets among valid ones.
C6_Witness ==
    /\ IsUpdate /\ last.path = "history" /\ WholePeriods = 3
    /\ Cardinality({i \in Buckets : nvLightning.hist[i] = -1}) = 2
    /\ \E i \in Buckets \ {CurrentBucket} : nvLightning.hist[i] # -1

\* C7: after an update() that is neither a cold start nor a regression and
\* has timestamp - lastUpdate >= HIST_SIZE*UPD_RATE*60, every bucket other
\* than the current one holds the cold-start fill value and the current one
\* holds the delta of this call.
C7_ExpiryResets ==
    (IsUpdate /\ last.path = "expired") =>
        /\ \A i \in Buckets \ {CurrentBucket} : nvLightning.hist[i] = HistFill
        /\ nvLightning.hist[CurrentBucket] = Delta

\* C8: from first boot, after update(t0, c) lastEvent() returns none; after
\* update(t0 + 600, c + d, x), d > 0, lastEvent() returns (t0 + 600, d, x)
\* and pastHour() returns (d, true); after update(t0 + 4200, c + d + e),
\* e > 0, pastHour() returns (e, true).
C8_ThreeReports ==
    /\ scenario.stage = 1 => ~lastEvent(nvLightning).res
    /\ scenario.stage = 2 =>
          /\ lastEvent(nvLightning) =
                [res |-> TRUE, timestamp |-> scenario.t0 + 600,
                 events |-> scenario.d, distance |-> scenario.x]
          /\ pastHour(nvLightning) = [res |-> TRUE, events |-> scenario.d]
    /\ scenario.stage = 3 =>
          pastHour(nvLightning) = [res |-> TRUE, events |-> scenario.e]

\* C9: from first boot, while no update() has saved an event, lastEvent()
\* returns none; and lastEvent() returns none exactly when events = -1,
\* the stored snapshot otherwise, and modifies no field.
C9_NoDataBeforeFirstStrike ==
    last.op = "lastEvent" =>
          /\ (~scenario.struck /\ ~scenario.wasReset) => ~last.lastEvent.res
          /\ nvLightning = last.pre
          /\ last.lastEvent.res <=> (last.pre.events # -1)
          /\ last.lastEvent.res =>
                /\ last.lastEvent.timestamp = last.pre.timestamp
                /\ last.lastEvent.events = last.pre.events
                /\ last.lastEvent.distance = last.pre.distance

\* C10: with the key-value store backend, when an update() returns, on
\* every path, the durable record holds the field values of the record in
\* memory.
C10_DurableAfterUpdate ==
    (usePrefs /\ IsUpdate) => DurableMatches

\* C11: an update() that is neither a cold start nor a regression and has
\* timestamp < lastUpdate leaves every history bucket and lastUpdate
\* unchanged, while prevCount and the last-event snapshot are updated as for
\* a normal call: events = rawCount - P, distance and timestamp recorded and
\* prevCount = rawCount when rawCount > P, all of them unchanged when not.
C11_NegativeElapsed ==
    (IsUpdate /\ last.entry.prevCount # -1
              /\ last.args.count >= last.entry.prevCount
              /\ last.args.timestamp < last.entry.lastUpdate) =>
        /\ nvLightning.hist = last.pre.hist
        /\ nvLightning.lastUpdate = last.pre.lastUpdate
        /\ nvLightning.prevCount = last.args.count
        /\ IF last.args.count > last.pre.prevCount
           THEN /\ nvLightning.events = Delta
                /\ nvLightning.distance = last.args.distance
                /\ nvLightning.timestamp = last.args.timestamp
           ELSE /\ nvLightning.events = last.pre.events
                /\ nvLightning.distance = last.pre.distance
                /\ nvLightning.timestamp = last.pre.timestamp

RECURSIVE SumOver(_, _)
\* The sum of f over the finite set S.
SumOver(f, S) ==
    IF S = {} THEN 0
    ELSE LET i == CHOOSE j \in S : TRUE IN f[i] + SumOver(f, S \ {i})

\* C12: pastHour() returns as events the sum of the buckets whose value is
\* not -1 and returns true iff at least one bucket is not -1 (0 and false
\* when every bucket is -1), and modifies no field.
C12_PastHourSumsValid ==
    last.op = "pastHour" =>
        LET valid == {i \in Buckets : last.pre.hist[i] # -1}
        IN  /\ last.pastHour.events = SumOver(last.pre.hist, valid)
            /\ last.pastHour.res <=> (valid # {})
            /\ valid = {} => (last.pastHour.events = 0 /\ ~last.pastHour.res)
            /\ nvLightning = last.pre

\* pastHour() was called on a history with invalid buckets next to buckets
\* that hold events.
C12_Witness ==
    /\ last.op = "pastHour"
    /\ Cardinality({i \in Buckets : nvLightning.hist[i] = -1}) = 2
    /\ last.pastHour.res
    /\ last.pastHour.events = 3

\* C13: in every state reached from first boot by update() and reset() calls
\* with rawCount >= 0, every history bucket is -1 or a non-negative count.
C13_BucketsValidOrCount ==
    \A i \in Buckets : nvLightning.hist[i] = -1 \/ nvLightning.hist[i] >= 0

\* An update() wrote its bucket and invalidated others, next to buckets that
\* still hold what the reset of the history stored.
C13_Witness ==
    /\ Completed
    /\ nvLightning.hist[CurrentBucket] = 0
    /\ \E i \in Buckets : nvLightning.hist[i] = -1
    /\ \E i \in Buckets : nvLightning.hist[i] = HistFill

\* C14: in every state reached by update() and reset() calls, if
\* prevCount = -1 (cold-start state) then every history bucket holds the
\* reset fill value.
C14_ColdStateHasResetHistory ==
    (last.op \in {"update", "reset"} /\ nvLightning.prevCount = -1) =>
        \A i \in Buckets : nvLightning.hist[i] = HistFill

\* C15 as stated: for every pair of constants with HIST_SIZE * UPD_RATE <= 60
\* and every timestamp, the bucket index minuteOfHour / UPD_RATE lies in
\* [0, HIST_SIZE).
C15_IndexInRange ==
    probe.done => probe.idx \in 0 .. (probe.histSize - 1)

\* C15 as amended: for every pair of constants with HIST_SIZE * UPD_RATE = 60
\* and every timestamp, the bucket index minuteOfHour / UPD_RATE lies in
\* [0, HIST_SIZE).
C15_IndexInRangeFullHour ==
    (probe.done /\ probe.histSize * probe.updRate = MinutesPerHour) =>
        probe.idx \in 0 .. (probe.histSize - 1)

\* The index of a minute of the last bucket was computed for the build with
\* 6 buckets of 10 minutes.
C15_Witness ==
    /\ probe.done
    /\ probe.histSize = LIGHTNING_HIST_SIZE /\ probe.updRate = LIGHTNING_UPD_RATE
    /\ probe.idx = LIGHTNING_HIST_SIZE - 1

\* C16: after every update() that reaches the history steps, the bucket of
\* the call's timestamp holds the value written for this call and is not -1,
\* whatever lastUpdate and timestamp are.
C16_WalkExcludesCurrentBucket ==
    Completed =>
        /\ nvLightning.hist[CurrentBucket] # -1
        /\ nvLightning.hist[CurrentBucket] = last.args.count - nvLightning.prevCount

\* C17: in one update() the gap loop performs at most HIST_SIZE bucket
\* invalidations, whatever lastUpdate and timestamp are.
C17_BoundedWalk ==
    IsUpdate => last.walk <= LIGHTNING_HIST_SIZE

\* C18: under either backend, once one update() has returned (and no
\* reset() was called since), the next update() does not take the cold-start
\* path.
C18_ColdStartOnce ==
    (IsUpdate /\ last.afterUpdate) => last.path # "cold"

\* C19: when update() returns, on any path, prevCount equals the rawCount
\* it was called with (rawCount >= 0); in particular prevCount # -1.
C19_BaselineTracksCounter ==
    IsUpdate =>
        /\ nvLightning.prevCount = last.args.count
        /\ nvLightning.prevCount # -1

====
